---- MODULE Spec2Model ----
(***************************************************************************)
(* Guru Meditation: the failure-escalation engine of guru.cpp.             *)
(*                                                                         *)
(* Two generations of the source are modelled side by side: release 1.2    *)
(* (src/unnamed/part_000, gen = 12) and release 1.3 (src/guru.cpp,         *)
(* gen = 13).  The preprocessor switches of guru.h are the build           *)
(* configuration: the presenter backend (GURU_USING_CONSOLE,               *)
(* GURU_USING_CURSES, GURU_USING_LIBTCOD or none of them) and, in 1.3,     *)
(* GURU_USING_STACK_TRACE.                                                 *)
(*                                                                         *)
(* Time is counted in whole seconds.  The log file is the sequence of its  *)
(* lines without the [HH:MM:SS] prefix: a severity tag and a text.         *)
(***************************************************************************)
EXTENDS Integers, Sequences, FiniteSets, TLC

VARIABLES
    gen,               \* 12: release 1.2 (part_000), 13: release 1.3 (guru.cpp)
    backend,           \* "none", "console", "curses", "libtcod"
    stack_on,          \* GURU_USING_STACK_TRACE (always on in release 1.2)
    cascade_count,     \* unsigned int cascade_count
    cascade_failure,   \* bool cascade_failure
    cascade_timer,     \* time_point cascade_timer, seconds since the epoch
    dead_already,      \* bool dead_already
    fully_active,      \* bool fully_active
    last_log_message,  \* std::string last_log_message
    message,           \* std::string message
    syslog_open,       \* syslog.is_open()
    logfile,           \* the lines of the log file
    funcs,             \* StackTrace::funcs, top of the stack last
    live,              \* the identifiers of the application's live guards, innermost last
    handlers,          \* disposition of the four fault signals
    now,               \* system_clock::now(), seconds since the epoch
    ticks,             \* number of clock steps taken so far
    pstate,            \* "Normal", "Presenting", "Terminated"
    exit_status,       \* the statuses given to exit(): empty while the process runs
    handling,          \* signals whose handler has begun and not yet disabled the signals
    shown,             \* the messages handed to the presenter, in order
    submitted,         \* the log() calls of the last operation: <<type, text>> records
    halts,             \* number of halt() calls so far
    cascade_halts,     \* number of halt("Cascade failure detected!") calls made by nonfatal
    returned,          \* number of halt() calls that returned to their caller
    drained,           \* StackTrace::funcs as the last drain of halt() left it
    weighted_at,       \* the times of the last two weighted reports that reached the detector
    recent,            \* the weighted reports of the last 30 s: time, weight, arrival after the window expired
    unwritten,         \* texts log() was given while the log was not open, not logged since
    streak,            \* per severity, the reports counted since the pressure was last 0
    op                 \* the last operation and its arguments

vars == <<gen, backend, stack_on, cascade_count, cascade_failure, cascade_timer,
          dead_already, fully_active, last_log_message, message, syslog_open,
          logfile, funcs, live, handlers, now, ticks, pstate, exit_status, handling,
          shown, submitted, halts, cascade_halts, returned, drained,
          weighted_at, recent, unwritten, streak, op>>

---------------------------------------------------------------------------
(* Program constants. *)

CASCADE_THRESHOLD == 20
CASCADE_TIMEOUT == 30
CASCADE_WEIGHT_CRITICAL == 4
CASCADE_WEIGHT_ERROR == 2
CASCADE_WEIGHT_WARNING == 1
GURU_INFO == 0
GURU_WARN == 1
GURU_ERROR == 2
GURU_CRITICAL == 3
GURU_STACK == 4
EXIT_FAILURE == 1
MessageCap == 39
Epoch == 0

Signals == {"SIGABRT", "SIGSEGV", "SIGILL", "SIGFPE"}
Backends == {"none", "console", "curses", "libtcod"}

(* The build configurations guru.h allows: release 1.2 has no libtcod      *)
(* backend and no switch for the stack trace.                              *)
Builds ==
    {<<12, b, TRUE>> : b \in {"none", "console", "curses"}}
        \cup {<<13, b, s>> : b \in Backends, s \in BOOLEAN}

---------------------------------------------------------------------------
(* Bounds of the model. *)

StartTime == 100     \* the clock when the process starts
MaxTicks == 3        \* clock steps per behaviour
MaxLog == 4          \* operations are issued while the log has at most this many lines
MaxDepth == 2        \* live guards of the application
MaxHalts == 2        \* explicit fatal reports of the application per behaviour

TickSteps == {1, CASCADE_TIMEOUT}

---------------------------------------------------------------------------
(* Texts. *)

Banner == "Software Failure, Halting Execution"
CascadeMsg == "Cascade failure detected!"
DyingMsg == "Detected cleanup in process, attempting to die peacefully."
TraceHeader == "Stack trace follows:"
Farewell1 == "Guru system shutting down."
Farewell2 == "The rest is silence."
OnlineMsg == "Guru error-handling system is online. Hooking signals..."
BadSeverityMsg == "Nonfatal error reported with incorrect severity specified."
LoopMsg == "loop"

(* vsprintf(buffer, msg.c_str(), ap): the format "v=%d" is always called   *)
(* with the argument 5; the other texts of the model hold no conversion.   *)
Sprintf(fmt) == IF fmt = "v=%d" THEN "v=5" ELSE fmt

(* Release 1.3 formats the text of halt, log and nonfatal; 1.2 does not.   *)
Format(g, msg) == IF g = 13 THEN Sprintf(msg) ELSE msg

(* if (message.size() > 39) message = message.substr(0, 39); *)
Cap(msg) == IF Len(msg) > MessageCap THEN SubSeq(msg, 1, MessageCap) ELSE msg

(* The switch of log(): the tag written before the text. *)
TagOf(type) ==
    CASE type = GURU_WARN -> "[WARN] "
      [] type = GURU_ERROR -> "[ERROR] "
      [] type = GURU_CRITICAL -> "[CRITICAL] "
      [] OTHER -> ""

(* The switch of nonfatal(): 0 stands for the default branch. *)
WeightOf(type) ==
    CASE type = GURU_WARN -> CASCADE_WEIGHT_WARNING
      [] type = GURU_ERROR -> CASCADE_WEIGHT_ERROR
      [] type = GURU_CRITICAL -> CASCADE_WEIGHT_CRITICAL
      [] OTHER -> 0

(* The switch of intercept_signal() with its default branch only. *)
PhraseUnknownForAll(sig) == "Intercepted unknown signal."

(* The switch of intercept_signal(). *)
PhraseOf(sig) ==
    CASE sig = "SIGABRT" -> "Software requested abort."
      [] sig = "SIGFPE" -> "Floating-point exception."
      [] sig = "SIGILL" -> "Illegal instruction."
      [] sig = "SIGSEGV" -> "Segmentation fault."
      [] OTHER -> "Intercepted unknown signal."

HookFailMsg(sig) ==
    CASE sig = "SIGABRT" -> "Failed to hook abort signal."
      [] sig = "SIGSEGV" -> "Failed to hook segfault signal."
      [] sig = "SIGILL" -> "Failed to hook illegal instruction signal."
      [] OTHER -> "Failed to hook floating-point exception signal."

---------------------------------------------------------------------------
(* The program state as one record, so that a call can be applied to the   *)
(* result of another.  vk is the value the uninitialised keypress.vk of    *)
(* the libtcod presenter happens to hold: TRUE when it equals escape.      *)

Cur(vk) ==
    [gen |-> gen, backend |-> backend, stack_on |-> stack_on, now |-> now,
     vk_escape |-> vk,
     cascade_count |-> cascade_count, cascade_failure |-> cascade_failure,
     cascade_timer |-> cascade_timer, dead_already |-> dead_already,
     fully_active |-> fully_active, last_log_message |-> last_log_message,
     message |-> message, syslog_open |-> syslog_open, logfile |-> logfile,
     funcs |-> funcs, handlers |-> handlers, pstate |-> pstate,
     exit_status |-> exit_status, shown |-> shown, submitted |-> <<>>,
     halts |-> halts, cascade_halts |-> cascade_halts, returned |-> returned,
     drained |-> drained, weighted_at |-> weighted_at, recent |-> recent,
     unwritten |-> unwritten]

Commit(r) ==
    /\ cascade_count' = r.cascade_count
    /\ cascade_failure' = r.cascade_failure
    /\ cascade_timer' = r.cascade_timer
    /\ dead_already' = r.dead_already
    /\ fully_active' = r.fully_active
    /\ last_log_message' = r.last_log_message
    /\ message' = r.message
    /\ syslog_open' = r.syslog_open
    /\ logfile' = r.logfile
    /\ funcs' = r.funcs
    /\ handlers' = r.handlers
    /\ pstate' = r.pstate
    /\ exit_status' = r.exit_status
    /\ shown' = r.shown
    /\ submitted' = r.submitted
    /\ halts' = r.halts
    /\ cascade_halts' = r.cascade_halts
    /\ returned' = r.returned
    /\ drained' = r.drained
    /\ weighted_at' = r.weighted_at
    /\ recent' = r.recent
    /\ unwritten' = r.unwritten

(* Control is still with the caller: no exit() was reached and no          *)
(* presenter loop is blocking.                                             *)
Running(r) == r.pstate = "Normal"

(* StackTrace::StackTrace and StackTrace::~StackTrace. *)
Push(r, func) ==
    IF r.stack_on THEN [r EXCEPT !.funcs = Append(@, func)] ELSE r

(* ~StackTrace() leaving the frame on the stack. *)
PopKeepsFrame(r) == r

Pop(r) ==
    IF r.stack_on /\ r.funcs # <<>>
    THEN [r EXCEPT !.funcs = SubSeq(@, 1, Len(@) - 1)]
    ELSE r

(* An exit that reports success. *)
ExitSuccess(r) == [r EXCEPT !.pstate = "Terminated", !.exit_status = Append(@, 0)]

(* exit(EXIT_FAILURE), exit(1). *)
Exit(r) == [r EXCEPT !.pstate = "Terminated", !.exit_status = Append(@, EXIT_FAILURE)]

(* log() remembering the text it was given while the log is not open. *)
DoLogRemembersClosed(r, msg, type) ==
    LET r0 == [r EXCEPT !.submitted = Append(@, [type |-> type, text |-> msg])]
        txt == Format(r.gen, msg)
    IN  IF ~r0.syslog_open THEN [r0 EXCEPT !.last_log_message = txt]
        ELSE IF msg = r0.last_log_message THEN r0
        ELSE [r0 EXCEPT !.last_log_message = txt,
                        !.logfile = Append(@, [tag |-> TagOf(type), text |-> txt])]

(* guru::log.  Release 1.3 compares the text as passed with the last text  *)
(* as written, and formats only afterwards.                                *)
DoLog(r, msg, type) ==
    LET r0 == [r EXCEPT !.submitted = Append(@, [type |-> type, text |-> msg])]
        txt == Format(r.gen, msg)
    IN  IF ~r0.syslog_open THEN r0
        ELSE IF msg = r0.last_log_message THEN r0
        ELSE [r0 EXCEPT !.last_log_message = txt,
                        !.logfile = Append(@, [tag |-> TagOf(type), text |-> txt])]

RECURSIVE DrainLoopPopsRoot(_)
(* The loop of halt() popping the last frame as well. *)
DrainLoopPopsRoot(r) ==
    LET n == Len(r.funcs)
        r1 == DoLog(r, ToString(n - 1) \o ": " \o r.funcs[n], GURU_STACK)
        r2 == [r1 EXCEPT !.funcs = SubSeq(@, 1, n - 1)]
    IN  IF n > 1 THEN DrainLoopPopsRoot(r2) ELSE r2

(* The while(true) loop of halt() over StackTrace::funcs. *)
RECURSIVE DrainLoop(_)
DrainLoop(r) ==
    LET n == Len(r.funcs)
        r1 == DoLog(r, ToString(n - 1) \o ": " \o r.funcs[n], GURU_STACK)
    IN  IF n > 1
        THEN DrainLoop([r1 EXCEPT !.funcs = SubSeq(@, 1, n - 1)])
        ELSE r1

(* if (StackTrace::funcs.size()) { log("Stack trace follows:") ... } *)
Drain(r) ==
    IF r.stack_on /\ Len(r.funcs) > 0
    THEN LET r1 == DrainLoop(DoLog(r, TraceHeader, GURU_STACK))
         IN  [r1 EXCEPT !.drained = r1.funcs]
    ELSE r

(* close_syslog closing the file before the farewell lines are logged. *)
DoCloseBeforeFarewell(r) ==
    LET r1 == Push(r, "close_syslog")
        r2 == DoLog([r1 EXCEPT !.syslog_open = FALSE], Farewell1, GURU_INFO)
        r3 == DoLog(r2, Farewell2, GURU_INFO)
    IN  Pop(r3)

(* guru::close_syslog. *)
DoClose(r) ==
    LET r1 == Push(r, "close_syslog")
        r2 == DoLog(r1, Farewell1, GURU_INFO)
        r3 == DoLog(r2, Farewell2, GURU_INFO)
    IN  Pop([r3 EXCEPT !.syslog_open = FALSE])

(* The presenter part of halt(), after message = error. *)
Present(r) ==
    CASE r.backend = "console" ->
            \* printf of the banner and of the message, then exit
            Exit([r EXCEPT !.shown = Append(@, Sprintf(r.message))])
      [] r.backend = "curses" ->
            LET r1 == [r EXCEPT !.message = Cap(@)]
                r2 == [r1 EXCEPT !.shown = Append(@, r1.message),
                                 !.pstate = "Presenting"]
            IN  IF r.gen = 12 THEN DoLog(r2, LoopMsg, GURU_INFO) ELSE r2
      [] r.backend = "libtcod" ->
            \* while (!isWindowClosed() && keypress.vk != TCODK_ESCAPE)
            IF r.vk_escape
            THEN Exit(r)
            ELSE [r EXCEPT !.shown = Append(@, r.message),
                           !.pstate = "Presenting"]
      [] OTHER ->
            \* no backend: 1.3 exits, 1.2 falls off the end of halt()
            IF r.gen = 13
            THEN Exit(r)
            ELSE Pop([r EXCEPT !.returned = @ + 1])

(* halt() looking at fully_active before it logs anything. *)
DoHaltChecksFirst(r, error) ==
    LET r1 == Push([r EXCEPT !.halts = @ + 1], "halt")
        err == Format(r.gen, error)
        r2 == DoLog(r1, Banner, GURU_CRITICAL)
        r3 == DoLog(r2, err, GURU_CRITICAL)
        r4 == Drain(r3)
    IN  IF r1.backend = "curses" /\ ~r1.fully_active
        THEN Exit(r1)
        ELSE IF r4.dead_already
        THEN Exit(DoLog(r4, DyingMsg, GURU_WARN))
        ELSE Present([r4 EXCEPT !.message = err])

(* halt() without the line if (!fully_active) exit(EXIT_FAILURE). *)
DoHaltNoReadyCheck(r, error) ==
    LET r1 == Push([r EXCEPT !.halts = @ + 1], "halt")
        err == Format(r.gen, error)
        r2 == DoLog(r1, Banner, GURU_CRITICAL)
        r3 == DoLog(r2, err, GURU_CRITICAL)
        r4 == Drain(r3)
    IN  IF r4.dead_already
        THEN Exit(DoLog(r4, DyingMsg, GURU_WARN))
        ELSE Present([r4 EXCEPT !.message = err])

(* guru::halt(std::string error). *)
DoHalt(r, error) ==
    LET r1 == Push([r EXCEPT !.halts = @ + 1], "halt")
        err == Format(r.gen, error)
        r2 == DoLog(r1, Banner, GURU_CRITICAL)
        r3 == DoLog(r2, err, GURU_CRITICAL)
        r4 == Drain(r3)
    IN  IF r4.backend = "curses" /\ ~r4.fully_active
        THEN Exit(r4)
        ELSE IF r4.dead_already
        THEN Exit(DoLog(r4, DyingMsg, GURU_WARN))
        ELSE Present([r4 EXCEPT !.message = err])

(* Observe halving the pressure when the window has expired. *)
ObserveLeaks(r, cascade_weight) ==
    IF cascade_weight = 0 THEN r
    ELSE IF r.now - r.cascade_timer <= CASCADE_TIMEOUT
    THEN LET r1 == [r EXCEPT !.cascade_count = @ + cascade_weight]
         IN  IF r1.cascade_count > CASCADE_THRESHOLD
             THEN DoHalt([r1 EXCEPT !.cascade_failure = TRUE,
                                    !.cascade_halts = @ + 1], CascadeMsg)
             ELSE r1
    ELSE [r EXCEPT !.cascade_timer = r.now, !.cascade_count = @ \div 2]

(* Observe clearing the pressure when it declares the cascade. *)
ObserveClearsOnTrip(r, cascade_weight) ==
    IF cascade_weight = 0 THEN r
    ELSE IF r.now - r.cascade_timer <= CASCADE_TIMEOUT
    THEN LET r1 == [r EXCEPT !.cascade_count = @ + cascade_weight]
         IN  IF r1.cascade_count > CASCADE_THRESHOLD
             THEN DoHalt([r1 EXCEPT !.cascade_failure = TRUE,
                                    !.cascade_count = 0,
                                    !.cascade_halts = @ + 1], CascadeMsg)
             ELSE r1
    ELSE [r EXCEPT !.cascade_timer = r.now, !.cascade_count = 0]

(* Observe adding 1 for every report, whatever its weight. *)
ObserveCountsCalls(r, cascade_weight) ==
    IF cascade_weight = 0 THEN r
    ELSE IF r.now - r.cascade_timer <= CASCADE_TIMEOUT
    THEN LET r1 == [r EXCEPT !.cascade_count = @ + 1]
         IN  IF r1.cascade_count > CASCADE_THRESHOLD
             THEN DoHalt([r1 EXCEPT !.cascade_failure = TRUE,
                                    !.cascade_halts = @ + 1], CascadeMsg)
             ELSE r1
    ELSE [r EXCEPT !.cascade_timer = r.now, !.cascade_count = 0]

(* Observe with the threshold compared by >= instead of >. *)
ObserveAtThreshold(r, cascade_weight) ==
    IF cascade_weight = 0 THEN r
    ELSE IF r.now - r.cascade_timer <= CASCADE_TIMEOUT
    THEN LET r1 == [r EXCEPT !.cascade_count = @ + cascade_weight]
         IN  IF r1.cascade_count >= CASCADE_THRESHOLD
             THEN DoHalt([r1 EXCEPT !.cascade_failure = TRUE,
                                    !.cascade_halts = @ + 1], CascadeMsg)
             ELSE r1
    ELSE [r EXCEPT !.cascade_timer = r.now, !.cascade_count = 0]

(* Observe with the timeout compared by < instead of <=. *)
ObserveStrictWindow(r, cascade_weight) ==
    IF cascade_weight = 0 THEN r
    ELSE IF r.now - r.cascade_timer < CASCADE_TIMEOUT
    THEN LET r1 == [r EXCEPT !.cascade_count = @ + cascade_weight]
         IN  IF r1.cascade_count > CASCADE_THRESHOLD
             THEN DoHalt([r1 EXCEPT !.cascade_failure = TRUE,
                                    !.cascade_halts = @ + 1], CascadeMsg)
             ELSE r1
    ELSE [r EXCEPT !.cascade_timer = r.now, !.cascade_count = 0]

(* The part of nonfatal() after guru::log: if (cascade_weight) { ... } *)
Observe(r, cascade_weight) ==
    IF cascade_weight = 0 THEN r
    ELSE IF r.now - r.cascade_timer <= CASCADE_TIMEOUT
    THEN LET r1 == [r EXCEPT !.cascade_count = @ + cascade_weight]
         IN  IF r1.cascade_count > CASCADE_THRESHOLD
             THEN DoHalt([r1 EXCEPT !.cascade_failure = TRUE,
                                    !.cascade_halts = @ + 1], CascadeMsg)
             ELSE r1
    ELSE [r EXCEPT !.cascade_timer = r.now, !.cascade_count = 0]

RECURSIVE DoNonfatal(_, _, _)

(* nonfatal() after its first line, without the default branch of the      *)
(* switch.                                                                 *)
NonfatalBodyNoReroute(r, error, type) ==
    LET r1 == Push(r, "nonfatal")
        r3 == DoLog(r1, Format(r.gen, error), type)
        r4 == Observe(r3, WeightOf(type))
    IN  IF ~Running(r4) THEN r4 ELSE Pop(r4)

(* nonfatal() passing to the detector only the reports whose line was      *)
(* written to the log.                                                     *)
NonfatalBodyCountsWritten(r, error, type) ==
    LET r1 == Push(r, "nonfatal")
        err == Format(r.gen, error)
        cascade_weight == WeightOf(type)
        r2 == IF type \notin {GURU_WARN, GURU_ERROR, GURU_CRITICAL}
              THEN DoNonfatal(r1, BadSeverityMsg, GURU_WARN)
              ELSE r1
        r3 == DoLog(r2, err, type)
        r4 == IF r3.logfile = r2.logfile THEN r3 ELSE Observe(r3, cascade_weight)
    IN  IF ~Running(r2) THEN r2
        ELSE IF ~Running(r4) THEN r4
        ELSE Pop(r4)

(* nonfatal() after its first line.  The default branch of the switch      *)
(* calls nonfatal again with a warning before the text is logged.          *)
NonfatalBody(r, error, type) ==
    LET r1 == Push(r, "nonfatal")
        err == Format(r.gen, error)
        cascade_weight == WeightOf(type)
        r2 == IF type \notin {GURU_WARN, GURU_ERROR, GURU_CRITICAL}
              THEN DoNonfatal(r1, BadSeverityMsg, GURU_WARN)
              ELSE r1
        r3 == DoLog(r2, err, type)
        r4 == Observe(r3, cascade_weight)
    IN  IF ~Running(r2) THEN r2
        ELSE IF ~Running(r4) THEN r4
        ELSE Pop(r4)

(* nonfatal without its first line, if (cascade_failure) return. *)
DoNonfatalUnguarded(r, error, type) == NonfatalBody(r, error, type)

(* guru::nonfatal. *)
DoNonfatal(r, error, type) ==
    IF r.cascade_failure THEN r ELSE NonfatalBody(r, error, type)

(* One signal(sig, intercept_signal) line of open_syslog. *)
Hook(r, sig, fail) ==
    IF ~Running(r) THEN r
    ELSE IF sig \in fail THEN DoHalt(r, HookFailMsg(sig))
    ELSE [r EXCEPT !.handlers[sig] = "hook"]

(* open_syslog starting the detector afresh. *)
DoOpenResetsCascade(r, ok, fail) ==
    LET r1 == IF ok THEN [r EXCEPT !.syslog_open = TRUE, !.logfile = <<>>] ELSE r
        r2 == DoLog(r1, OnlineMsg, GURU_INFO)
        r3 == [r2 EXCEPT !.handlers = [s \in Signals |-> "hook"]]
    IN  [r3 EXCEPT !.cascade_timer = r.now, !.cascade_count = 0,
                   !.cascade_failure = FALSE]

(* guru::open_syslog.  ok: the file could be opened; fail: the signals     *)
(* for which signal() returns SIG_ERR.                                     *)
DoOpen(r, ok, fail) ==
    LET r1 == IF ok THEN [r EXCEPT !.syslog_open = TRUE, !.logfile = <<>>] ELSE r
        r2 == DoLog(r1, OnlineMsg, GURU_INFO)
        r3 == Hook(r2, "SIGABRT", fail)
        r4 == Hook(r3, "SIGSEGV", fail)
        r5 == Hook(r4, "SIGILL", fail)
        r6 == Hook(r5, "SIGFPE", fail)
    IN  IF Running(r6) THEN [r6 EXCEPT !.cascade_timer = r.now] ELSE r6

(* The four signal(..., SIG_IGN) lines of intercept_signal. *)
IgnoreAll(r) == [r EXCEPT !.handlers = [s \in Signals |-> "ign"]]

(* intercept_signal from its signal(SIGABRT, SIG_IGN) line on. *)
DoIntercept(r, sig) ==
    LET r1 == DoHalt(IgnoreAll(r), PhraseOf(sig))
    IN  IF Running(r1) THEN Pop(r1) ELSE r1

---------------------------------------------------------------------------
(* Operations.  The application calls the library while the process runs   *)
(* and no signal handler is in progress; the environment advances the      *)
(* clock, delivers signals and presses keys.                               *)

Weighted == {GURU_WARN, GURU_ERROR, GURU_CRITICAL}

NoStreak == [t \in Weighted |-> 0]

MkOp(name, msg, type) == [name |-> name, msg |-> msg, type |-> type]

(* Control is with the application. *)
AppRuns ==
    /\ pstate = "Normal"
    /\ handling = <<>>

(* The application goes on calling the library while the log is short; it  *)
(* can close the log and mark the presenter whatever the length.           *)
AppReady ==
    /\ AppRuns
    /\ Len(logfile) <= MaxLog

VkChoices == IF backend = "libtcod" THEN BOOLEAN ELSE {FALSE}

Build == <<gen, backend, stack_on>>

(* guru::open_syslog(filename), called while the log is not open. *)
OpenSyslog(ok, fail) ==
    /\ AppReady
    /\ ~syslog_open
    /\ halts < MaxHalts
    /\ \E vk \in VkChoices : Commit(DoOpen(Cur(vk), ok, fail))
    /\ op' = [name |-> "open_syslog", msg |-> "", type |-> GURU_INFO,
              ok |-> ok, fail |-> fail]
    /\ UNCHANGED <<Build, streak, live, now, ticks, handling>>

(* guru::close_syslog(). *)
CloseSyslog ==
    /\ AppRuns
    /\ Commit(DoClose(Cur(FALSE)))
    /\ op' = MkOp("close_syslog", "", GURU_INFO)
    /\ UNCHANGED <<Build, streak, live, now, ticks, handling>>

(* guru::console_ready(ready). *)
ConsoleReady(ready) ==
    /\ AppRuns
    /\ Commit([Cur(FALSE) EXCEPT !.fully_active = ready])
    /\ op' = MkOp("console_ready", "", GURU_INFO)
    /\ UNCHANGED <<Build, streak, live, now, ticks, handling>>

(* guru::log(msg, type). *)
Log(msg, type) ==
    /\ AppReady
    /\ Commit(DoLog(Cur(FALSE), msg, type))
    /\ op' = MkOp("log", msg, type)
    /\ UNCHANGED <<Build, streak, live, now, ticks, handling>>

(* The same call, with the texts remembered that were given to log()      *)
(* while the log was not open and have not been given to it since.         *)
LogTracked(msg, type) ==
    /\ AppReady
    /\ LET r == DoLog(Cur(FALSE), msg, type)
       IN  Commit([r EXCEPT !.unwritten = IF syslog_open THEN @ \ {msg}
                                          ELSE @ \cup {msg}])
    /\ op' = MkOp("log", msg, type)
    /\ UNCHANGED <<Build, streak, live, now, ticks, handling>>

(* guru::nonfatal(error, type). *)
NonfatalCall(error, type) ==
    /\ AppReady
    /\ \E vk \in VkChoices : Commit(DoNonfatal(Cur(vk), error, type))
    /\ op' = MkOp("nonfatal", error, type)
    /\ UNCHANGED <<Build, live, now, ticks, handling>>

Nonfatal(error, type) ==
    /\ NonfatalCall(error, type)
    /\ UNCHANGED streak

(* The same call, with the report counted in streak: a call made once the  *)
(* cascade is declared is not counted, a call that leaves the pressure at  *)
(* 0 starts the count again, and a call with a severity outside the three  *)
(* weighted ones counts as the warning nonfatal() turns it into.           *)
NonfatalCounted(error, type) ==
    /\ NonfatalCall(error, type)
    /\ streak' =
          IF cascade_failure THEN streak
          ELSE IF cascade_count' = 0 THEN NoStreak
          ELSE IF type \in Weighted THEN [streak EXCEPT ![type] = @ + 1]
          ELSE [streak EXCEPT ![GURU_WARN] = @ + 1]

(* The same call with a weighted severity, with the time remembered at     *)
(* which it reached the detector.                                          *)
NonfatalTimed(error, type) ==
    /\ AppReady
    /\ type \in Weighted
    /\ \E vk \in VkChoices :
          LET r == DoNonfatal(Cur(vk), error, type)
          IN  Commit([r EXCEPT !.weighted_at =
                                  IF cascade_failure THEN @
                                  ELSE IF @ = <<>> THEN <<now>>
                                  ELSE <<@[Len(@)], now>>])
    /\ op' = MkOp("nonfatal", error, type)
    /\ UNCHANGED <<Build, streak, live, now, ticks, handling>>

(* The same call with a weighted severity, with the weighted reports of    *)
(* the last 30 s remembered: when each was made, its weight, and whether   *)
(* it arrived after the window had expired.  Reports that fall into the    *)
(* window in the same second are remembered together, by the sum of their  *)
(* weights.  A call made once the cascade is declared is not remembered.   *)
NonfatalSpan(error, type) ==
    /\ AppReady
    /\ type \in Weighted
    /\ \E vk \in VkChoices :
          LET r == DoNonfatal(Cur(vk), error, type)
              kept == SelectSeq(recent, LAMBDA e : now - e.at <= CASCADE_TIMEOUT)
              this == [at |-> now, weight |-> WeightOf(type),
                       expired |-> now - cascade_timer > CASCADE_TIMEOUT]
              n == Len(kept)
              joined == IF /\ n > 0
                           /\ kept[n].at = now
                           /\ ~kept[n].expired
                           /\ ~this.expired
                        THEN [kept EXCEPT ![n].weight = @ + this.weight]
                        ELSE Append(kept, this)
          IN  Commit([r EXCEPT !.recent = IF cascade_failure THEN @
                                          ELSE joined])
    /\ op' = MkOp("nonfatal", error, type)
    /\ UNCHANGED <<Build, streak, live, now, ticks, handling>>

(* guru::halt(error), called by the application. *)
Halt(error) ==
    /\ AppReady
    /\ halts < MaxHalts
    /\ \E vk \in VkChoices : Commit(DoHalt(Cur(vk), error))
    /\ op' = MkOp("halt", error, GURU_CRITICAL)
    /\ UNCHANGED <<Build, streak, live, now, ticks, handling>>

(* guru::halt(std::exception &e) of release 1.3. *)
HaltException(what) ==
    /\ AppReady
    /\ gen = 13
    /\ halts < MaxHalts
    /\ \E vk \in VkChoices :
          LET r == DoHalt(Push(Cur(vk), "halt_exception"), what)
          IN  Commit(IF Running(r) THEN Pop(r) ELSE r)
    /\ op' = MkOp("halt_exception", what, GURU_CRITICAL)
    /\ UNCHANGED <<Build, streak, live, now, ticks, handling>>

(* guru::affirm(condition, error). *)
Affirm(condition, error) ==
    /\ AppReady
    /\ halts < MaxHalts
    /\ \E vk \in VkChoices :
          LET r == IF condition
                   THEN Push(Cur(vk), "affirm")
                   ELSE DoHalt(Push(Cur(vk), "affirm"), error)
          IN  Commit(IF Running(r) THEN Pop(r) ELSE r)
    /\ op' = MkOp(IF condition THEN "affirm_true" ELSE "affirm_false", error, GURU_CRITICAL)
    /\ UNCHANGED <<Build, streak, live, now, ticks, handling>>

(* stack_trace(); at the start of a function of the application. *)
GuardPush(func) ==
    /\ AppReady
    /\ stack_on
    /\ Len(live) < MaxDepth
    /\ Commit(Push(Cur(FALSE), func))
    /\ live' = Append(live, func)
    /\ op' = MkOp("guard_push", func, GURU_INFO)
    /\ UNCHANGED <<Build, streak, now, ticks, handling>>

(* The innermost function of the application returns: ~StackTrace(). *)
GuardPop ==
    /\ AppReady
    /\ stack_on
    /\ live # <<>>
    /\ Commit(Pop(Cur(FALSE)))
    /\ live' = SubSeq(live, 1, Len(live) - 1)
    /\ op' = MkOp("guard_pop", "", GURU_INFO)
    /\ UNCHANGED <<Build, streak, now, ticks, handling>>

(* The clock advances. *)
Tick(d) ==
    /\ pstate # "Terminated"
    /\ ticks < MaxTicks
    /\ now' = now + d
    /\ ticks' = ticks + 1
    /\ Commit(Cur(FALSE))
    /\ op' = MkOp("tick", "", GURU_INFO)
    /\ UNCHANGED <<Build, streak, live, handling>>

(* A hooked fault signal is delivered: intercept_signal is entered, up to  *)
(* and without its signal(..., SIG_IGN) lines.  A signal is blocked while  *)
(* its own handler runs.                                                   *)
SignalEnter(sig) ==
    /\ pstate # "Terminated"
    /\ handlers[sig] = "hook"
    /\ \A i \in 1..Len(handling) : handling[i] # sig
    /\ halts + Len(handling) < MaxHalts
    /\ Commit(Push(Cur(FALSE), "intercept_signal"))
    /\ handling' = Append(handling, sig)
    /\ op' = MkOp("signal", sig, GURU_INFO)
    /\ UNCHANGED <<Build, streak, live, now, ticks>>

(* The innermost handler in progress runs on: it disables the four         *)
(* signals and calls halt.  If halt does not return, nothing interrupted   *)
(* ever resumes.                                                           *)
HandlerBody ==
    /\ pstate # "Terminated"
    /\ handling # <<>>
    /\ \E vk \in VkChoices :
          LET r == DoIntercept(Cur(vk), handling[Len(handling)])
          IN  /\ Commit(r)
              /\ handling' = IF Running(r)
                             THEN SubSeq(handling, 1, Len(handling) - 1)
                             ELSE <<>>
    /\ op' = MkOp("intercept_signal", handling[Len(handling)], GURU_CRITICAL)
    /\ UNCHANGED <<Build, streak, live, now, ticks>>

(* intercept_signal(sig) from its first line to its last, with nothing in  *)
(* between: a hooked fault signal is delivered, or the handler is entered  *)
(* for a signal number the application installed it for itself.            *)
Intercept(sig) ==
    /\ pstate # "Terminated"
    /\ handling = <<>>
    /\ sig \in Signals => handlers[sig] = "hook"
    /\ halts < MaxHalts
    /\ \E vk \in VkChoices :
          Commit(DoIntercept(Push(Cur(vk), "intercept_signal"), sig))
    /\ op' = MkOp("intercept_signal", sig, GURU_CRITICAL)
    /\ UNCHANGED <<Build, streak, live, now, ticks, handling>>

(* The user acknowledges the notice: escape in the Curses loop (which      *)
(* calls close_syslog and exits), escape or a closed window in libtcod.    *)
Acknowledge ==
    /\ pstate = "Presenting"
    /\ handling = <<>>
    /\ Commit(IF backend = "curses" THEN Exit(DoClose(Cur(FALSE))) ELSE Exit(Cur(FALSE)))
    /\ op' = MkOp("acknowledge", "", GURU_INFO)
    /\ UNCHANGED <<Build, streak, live, now, ticks, handling>>

(* Another key in the Curses loop: release 1.2 logs "loop" on every turn.  *)
PresenterKey ==
    /\ pstate = "Presenting"
    /\ handling = <<>>
    /\ backend = "curses"
    /\ Commit(IF gen = 12 THEN DoLog(Cur(FALSE), LoopMsg, GURU_INFO) ELSE Cur(FALSE))
    /\ op' = MkOp("key", "", GURU_INFO)
    /\ UNCHANGED <<Build, streak, live, now, ticks, handling>>

---------------------------------------------------------------------------
(* Initial state: the globals as guru.cpp defines them, for a build. *)

InitBuild(builds) ==
    /\ \E b \in builds : gen = b[1] /\ backend = b[2] /\ stack_on = b[3]
    /\ cascade_count = 0
    /\ cascade_failure = FALSE
    /\ cascade_timer = Epoch
    /\ dead_already = FALSE
    /\ fully_active = FALSE
    /\ last_log_message = ""
    /\ message = ""
    /\ syslog_open = FALSE
    /\ logfile = <<>>
    /\ funcs = <<>>
    /\ live = <<>>
    /\ handlers = [s \in Signals |-> "dfl"]
    /\ now = StartTime
    /\ ticks = 0
    /\ pstate = "Normal"
    /\ exit_status = <<>>
    /\ handling = <<>>
    /\ shown = <<>>
    /\ submitted = <<>>
    /\ halts = 0
    /\ cascade_halts = 0
    /\ returned = 0
    /\ drained = <<>>
    /\ weighted_at = <<>>
    /\ recent = <<>>
    /\ unwritten = {}
    /\ streak = NoStreak
    /\ op = MkOp("init", "", GURU_INFO)

---------------------------------------------------------------------------
(* The cascade detector under a stream of non-fatal reports: one text,     *)
(* the three weighted severities and one without weight, the clock         *)
(* stepping by one second or by the whole timeout.  One build per way      *)
(* halt() can end: it returns, it exits at once, it presents.              *)

CascadeBuilds ==
    {<<12, "none", TRUE>>, <<12, "curses", TRUE>>,
     <<13, "console", FALSE>>, <<13, "libtcod", TRUE>>}

CascadeTypes == {GURU_INFO, GURU_WARN, GURU_ERROR, GURU_CRITICAL}

NextCascade ==
    \/ \E ok \in BOOLEAN : OpenSyslog(ok, {})
    \/ \E d \in TickSteps : Tick(d)
    \/ \E t \in CascadeTypes : Nonfatal("a", t)
    \/ Acknowledge

SpecCascade == InitBuild(CascadeBuilds) /\ [][NextCascade]_vars

(* The same stream with the reports counted per severity, the clock        *)
(* stepping by seconds only, so that every report after the first lies in  *)
(* the window the first one found or started.                              *)

StreakBuilds == {<<12, "none", TRUE>>, <<13, "console", FALSE>>}

NextStreak ==
    \/ OpenSyslog(TRUE, {})
    \/ Tick(1)
    \/ \E t \in Weighted : NonfatalCounted("a", t)

SpecStreak == InitBuild(StreakBuilds) /\ [][NextStreak]_vars

---------------------------------------------------------------------------
(* Fatal reports in every build: explicit halts, failed assertions, a      *)
(* cascade of critical reports, and caught signals, with the presenter     *)
(* marked ready or not and the log open or closed.                         *)

(* The signals that are delivered; all four are hooked and ignored. *)
Faults == {"SIGSEGV", "SIGFPE"}

NextHalt ==
    \/ OpenSyslog(TRUE, {})
    \/ CloseSyslog
    \/ \E b \in BOOLEAN : ConsoleReady(b)
    \/ Halt("x")
    \/ \E c \in BOOLEAN : Affirm(c, "x")
    \/ Nonfatal("a", GURU_CRITICAL)
    \/ \E sig \in Faults : SignalEnter(sig)
    \/ HandlerBody
    \/ Acknowledge
    \/ PresenterKey

SpecHalt == InitBuild(Builds) /\ [][NextHalt]_vars

---------------------------------------------------------------------------
(* Fatal reports under guards of the application, in builds with and       *)
(* without the stack trace.                                                *)

TraceBuilds ==
    {<<12, "none", TRUE>>, <<12, "console", TRUE>>, <<13, "none", TRUE>>,
     <<13, "curses", TRUE>>, <<13, "libtcod", FALSE>>}

AppFuncs == {"main", "update"}

NextTrace ==
    \/ OpenSyslog(TRUE, {})
    \/ ConsoleReady(TRUE)
    \/ \E f \in AppFuncs : GuardPush(f)
    \/ GuardPop
    \/ Halt("x")
    \/ HaltException("x")
    \/ Affirm(FALSE, "x")
    \/ Nonfatal("a", GURU_CRITICAL)
    \/ Acknowledge
    \/ PresenterKey

SpecTrace == InitBuild(TraceBuilds) /\ [][NextTrace]_vars

---------------------------------------------------------------------------
(* The log sink: texts with and without a conversion, the first farewell   *)
(* line as a text of the application, two severities, the log opened and   *)
(* closed again and again, a cascade of critical reports.                  *)

LogBuilds ==
    {<<12, "none", TRUE>>, <<12, "curses", TRUE>>,
     <<13, "console", FALSE>>, <<13, "curses", TRUE>>}

LogMsgs == {"a", "v=%d", Farewell1}

LogTypes == {GURU_WARN, GURU_ERROR}

NextLog ==
    \/ \E ok \in BOOLEAN : OpenSyslog(ok, {})
    \/ CloseSyslog
    \/ \E m \in LogMsgs, t \in LogTypes : Log(m, t)
    \/ Nonfatal("a", GURU_CRITICAL)
    \/ ConsoleReady(TRUE)
    \/ Acknowledge
    \/ PresenterKey

SpecLog == InitBuild(LogBuilds) /\ [][NextLog]_vars

-----
(* Claims. *)

InWindow == now - cascade_timer <= CASCADE_TIMEOUT

StreakWeight ==
    streak[GURU_WARN] * CASCADE_WEIGHT_WARNING
        + streak[GURU_ERROR] * CASCADE_WEIGHT_ERROR
        + streak[GURU_CRITICAL] * CASCADE_WEIGHT_CRITICAL

(* C1: halt("Cascade failure detected!") is called by the report that      *)
(* first brings the pressure of the current window above 20 and by no      *)
(* other step, at most once in a process lifetime; a nonfatal call made    *)
(* once the cascade is declared calls log() not at all and changes         *)
(* neither the log, nor the pressure, nor the start of the window.         *)
C1_Step ==
    /\ cascade_halts' <= 1
    /\ cascade_halts' # cascade_halts =>
          /\ op'.name = "nonfatal"
          /\ ~cascade_failure /\ cascade_failure'
          /\ cascade_count <= CASCADE_THRESHOLD
          /\ cascade_count' > CASCADE_THRESHOLD
          /\ cascade_halts' = cascade_halts + 1
          /\ halts' = halts + 1
          /\ \E i \in 1..Len(submitted') :
                submitted'[i] = [type |-> GURU_CRITICAL, text |-> CascadeMsg]
    /\ (/\ op'.name = "nonfatal"
        /\ op'.type \in Weighted
        /\ ~cascade_failure
        /\ InWindow
        /\ cascade_count + WeightOf(op'.type) > CASCADE_THRESHOLD)
          => cascade_halts' = cascade_halts + 1
    /\ (op'.name = "nonfatal" /\ cascade_failure) =>
          /\ submitted' = <<>>
          /\ logfile' = logfile
          /\ last_log_message' = last_log_message
          /\ cascade_count' = cascade_count
          /\ cascade_timer' = cascade_timer
          /\ cascade_failure'
          /\ halts' = halts

C1_CascadeOnce == [][C1_Step]_vars

(* A report is made after the cascade was declared and its halt returned. *)
C1_Witness ==
    /\ op.name = "nonfatal"
    /\ op.type \in Weighted
    /\ cascade_failure
    /\ cascade_halts = 1
    /\ submitted = <<>>

(* C4: counted from pressure 0 inside one window, the pressure is the      *)
(* weighted number of reports, and the cascade is declared exactly when    *)
(* that weight is above 20: by the 21st warning, the 11th error, the 6th   *)
(* critical report of an unmixed stream and by none before.                *)
C4_TripCounts ==
    /\ cascade_count = StreakWeight
    /\ cascade_failure <=> StreakWeight > CASCADE_THRESHOLD
    /\ cascade_halts = IF cascade_failure THEN 1 ELSE 0
    /\ (streak[GURU_ERROR] = 0 /\ streak[GURU_CRITICAL] = 0) =>
          /\ streak[GURU_WARN] <= 21
          /\ cascade_failure <=> streak[GURU_WARN] = 21
    /\ (streak[GURU_WARN] = 0 /\ streak[GURU_CRITICAL] = 0) =>
          /\ streak[GURU_ERROR] <= 11
          /\ cascade_failure <=> streak[GURU_ERROR] = 11
    /\ (streak[GURU_WARN] = 0 /\ streak[GURU_ERROR] = 0) =>
          /\ streak[GURU_CRITICAL] <= 6
          /\ cascade_failure <=> streak[GURU_CRITICAL] = 6

(* The 21st warning of an unmixed stream has declared the cascade. *)
C4_Witness ==
    /\ cascade_failure
    /\ op.name = "nonfatal"
    /\ streak = [NoStreak EXCEPT ![GURU_WARN] = 21]

(* C5: a weighted report made more than 30 s after the start of the        *)
(* window, with no cascade declared, leaves pressure 0 and the window      *)
(* starting now, and declares nothing; one made at most 30 s after it      *)
(* adds its weight and leaves the start of the window alone.               *)
C5_Step ==
    (op'.name = "nonfatal" /\ op'.type \in Weighted /\ ~cascade_failure) =>
        IF now - cascade_timer > CASCADE_TIMEOUT
        THEN /\ cascade_count' = 0
             /\ cascade_timer' = now
             /\ ~cascade_failure'
             /\ cascade_halts' = cascade_halts
             /\ halts' = halts
             /\ pstate' = pstate
        ELSE /\ cascade_count' = cascade_count + WeightOf(op'.type)
             /\ cascade_timer' = cascade_timer

---------------------------------------------------------------------------

HaltStep == halts' = halts + 1

AllIgnored == \A sig \in Signals : handlers[sig] = "ign"

(* C2: a fatal report that arrives while an earlier one is presenting      *)
(* hands nothing to the presenter: it logs the "dying peacefully" warning  *)
(* and exits with a failure status.                                        *)
C2_Step ==
    (pstate = "Presenting" /\ halts' > halts) =>
        /\ shown' = shown
        /\ pstate' = "Terminated"
        /\ exit_status' = <<EXIT_FAILURE>>
        /\ \E i \in 1..Len(submitted') :
              submitted'[i] = [type |-> GURU_WARN, text |-> DyingMsg]

C2_NoSecondNotice == [][C2_Step]_vars

(* C3: no call of halt returns: once a fatal report was made the process   *)
(* is presenting or terminated, in every build of both releases.           *)
C3_HaltNeverReturns ==
    /\ returned = 0
    /\ halts > 0 => pstate \in {"Presenting", "Terminated"}

(* C6 as stated: with readiness false, a fatal report exits at once with   *)
(* a failure status and hands nothing to the presenter, in every build.    *)
C6_AnyBackend_Step ==
    (HaltStep /\ ~fully_active) =>
        /\ pstate' = "Terminated"
        /\ exit_status' = <<EXIT_FAILURE>>
        /\ shown' = shown

C6_AnyBackend == [][C6_AnyBackend_Step]_vars

(* C6, amended: in a Curses build, a fatal report made while readiness is  *)
(* false exits at once with a failure status and hands nothing to the      *)
(* presenter.                                                              *)
C6_Step ==
    (HaltStep /\ backend = "curses" /\ ~fully_active) =>
        /\ pstate' = "Terminated"
        /\ exit_status' = <<EXIT_FAILURE>>
        /\ shown' = shown
        /\ message' = message

C6_NotReadyExits == [][C6_Step]_vars

(* A Curses build that is not ready has halted and exited. *)
C6_Witness ==
    /\ backend = "curses"
    /\ op.name = "halt"
    /\ ~fully_active
    /\ halts = 1
    /\ pstate = "Terminated"
    /\ shown = <<>>

(* The frames a fatal report finds above those of the pre-state: its own   *)
(* and that of the library function that made the report.                  *)
PushedBy(name) ==
    CASE name = "halt_exception" -> <<"halt_exception", "halt">>
      [] name = "affirm_false" -> <<"affirm", "halt">>
      [] name = "nonfatal" -> <<"nonfatal", "halt">>
      [] OTHER -> <<"halt">>

TraceLines(sub) ==
    SelectSeq(sub, LAMBDA e : e.type = GURU_STACK /\ e.text # TraceHeader)

ExpectedTrace(stack) ==
    [i \in 1..Len(stack) |->
        [type |-> GURU_STACK,
         text |-> ToString(Len(stack) - i) \o ": " \o stack[Len(stack) - i + 1]]]

Written(file, lines) ==
    \E k \in 0..(Len(file) - Len(lines)) :
        \A i \in 1..Len(lines) :
            file[k + i] = [tag |-> "", text |-> lines[i].text]

(* C8: a fatal report that finds N >= 1 frames on the stack passes N       *)
(* lines "<depth>: <identifier>" to log() at the stack-trace severity,     *)
(* innermost frame first, depths N-1 down to 0 (and an open log receives   *)
(* them in that order); the drain leaves the first-pushed frame alone on   *)
(* the stack; without a stack no trace line is logged.                     *)
C8_Step ==
    HaltStep =>
        IF stack_on
        THEN LET stack == funcs \o PushedBy(op'.name)
             IN  /\ TraceLines(submitted') = ExpectedTrace(stack)
                 /\ drained' = <<stack[1]>>
                 /\ syslog_open => Written(logfile', ExpectedTrace(stack))
        ELSE /\ TraceLines(submitted') = <<>>
             /\ drained' = <<>>

C8_DrainTrace == [][C8_Step]_vars

(* A halt under two guards of the application, with the log open. *)
C8_Witness ==
    /\ op.name = "halt"
    /\ stack_on
    /\ syslog_open
    /\ Len(live) = 2
    /\ drained = <<live[1]>>
    /\ TraceLines(submitted) =
          ExpectedTrace(<<live[1], live[2], "halt">>)
    /\ Written(logfile, TraceLines(submitted))

(* C10: when the signal handler makes its fatal report the four fault      *)
(* signals are ignored, and they stay ignored from then on.                *)
C10_Step ==
    /\ op'.name = "intercept_signal" => AllIgnored'
    /\ AllIgnored => AllIgnored'

C10_SignalsStayIgnored == [][C10_Step]_vars

---------------------------------------------------------------------------

LastText(file) == file[Len(file)].text

NoRepeatedLine(file) ==
    \A i \in 1..(Len(file) - 1) : file[i].text # file[i + 1].text

(* C7: log() discards a write exactly when the log is not open or the      *)
(* text, as written, equals the text of the last written line, whatever    *)
(* the severities; so no two consecutive lines of the log carry the same   *)
(* text.                                                                   *)
C7_Step ==
    /\ op'.name = "log" =>
          (logfile' = logfile <=>
              \/ ~syslog_open
              \/ logfile # <<>> /\ Format(gen, op'.msg) = LastText(logfile))
    /\ NoRepeatedLine(logfile')

C7_Dedup == [][C7_Step]_vars

Line(type, text) == [tag |-> TagOf(type), text |-> text]

(* close_syslog() runs with the log open: called by the application, or    *)
(* by the Curses presenter when the notice is acknowledged.                *)
CloseStep ==
    /\ syslog_open
    /\ \/ op'.name = "close_syslog"
       \/ op'.name = "acknowledge" /\ backend = "curses"

(* C9 as stated: close_log appends both farewell lines, in order, as the   *)
(* last two lines of the log, and then the log is closed.                  *)
C9_AsStated_Step ==
    CloseStep =>
        /\ logfile' = logfile \o <<Line(GURU_INFO, Farewell1), Line(GURU_INFO, Farewell2)>>
        /\ ~syslog_open'

C9_AsStated == [][C9_AsStated_Step]_vars

(* C9, amended: close_log leaves the log closed with the two farewell      *)
(* texts as the texts of its last two lines; it appends both lines,        *)
(* unless the last written text already is the first farewell text, and    *)
(* then it appends the second line only.                                   *)
C9_Step ==
    CloseStep =>
        /\ ~syslog_open'
        /\ Len(logfile') >= 2
        /\ logfile'[Len(logfile') - 1].text = Farewell1
        /\ logfile'[Len(logfile')] = Line(GURU_INFO, Farewell2)
        /\ logfile' =
              IF last_log_message = Farewell1
              THEN logfile \o <<Line(GURU_INFO, Farewell2)>>
              ELSE logfile \o <<Line(GURU_INFO, Farewell1), Line(GURU_INFO, Farewell2)>>

C9_Farewell == [][C9_Step]_vars

(* The log was closed after a cascade had been declared. *)
C9_Witness ==
    /\ op.name \in {"close_syslog", "acknowledge"}
    /\ cascade_failure
    /\ ~syslog_open
    /\ Len(logfile) >= 2
    /\ logfile[Len(logfile) - 1] = Line(GURU_INFO, Farewell1)
    /\ logfile[Len(logfile)] = Line(GURU_INFO, Farewell2)

---------------------------------------------------------------------------

(* C11: every termination of the process that the halt path causes (the    *)
(* exit of a Curses build that is not ready, the exit of the console       *)
(* backend, the exit after the notice was acknowledged, the final exit of  *)
(* release 1.3) carries a status other than 0, and the process exits at    *)
(* most once.                                                              *)
C11_FailureStatus ==
    /\ pstate = "Terminated" <=> exit_status # <<>>
    /\ Len(exit_status) <= 1
    /\ \A i \in 1..Len(exit_status) : exit_status[i] # 0

(* The notice of a Curses build was acknowledged and the process exited. *)
C11_Witness ==
    /\ op.name = "acknowledge"
    /\ backend = "curses"
    /\ halts > 0
    /\ pstate = "Terminated"
    /\ exit_status = <<EXIT_FAILURE>>

---------------------------------------------------------------------------
(* Fatal reports of every kind (explicit halt, failed assertion, cascade,  *)
(* caught or unknown signal, failed hooking of a signal) under the         *)
(* scheduling the code has: the user acknowledges a notice that stays on   *)
(* screen, and an application that has control goes on running (here: it   *)
(* goes on marking the presenter ready and not ready).                     *)

HookFailures == {{}, {"SIGILL"}}

Delivered == {"SIGSEGV", "SIGTERM"}

NextFatal ==
    \/ \E fail \in HookFailures : OpenSyslog(TRUE, fail)
    \/ CloseSyslog
    \/ \E b \in BOOLEAN : ConsoleReady(b)
    \/ Halt("x")
    \/ Affirm(FALSE, "x")
    \/ Nonfatal("a", GURU_CRITICAL)
    \/ \E sig \in Delivered : Intercept(sig)
    \/ Acknowledge
    \/ PresenterKey

AppGoesOn == \E b \in BOOLEAN : ConsoleReady(b)

SpecFatalFair ==
    /\ InitBuild(Builds)
    /\ [][NextFatal]_vars
    /\ WF_vars(Acknowledge)
    /\ WF_vars(AppGoesOn)

(* C12: every fatal report is eventually followed by the termination of    *)
(* the process, given that a notice on screen is eventually acknowledged.  *)
C12_EventuallyTerminates == (halts > 0) ~> (pstate = "Terminated")

---------------------------------------------------------------------------
(* The cascade flag under every operation: reports, plain log lines, the   *)
(* log opened and closed, the presenter marked, explicit halts, the clock  *)
(* stepping past the window.  Builds in which the process lives on after   *)
(* the cascade halt (it returns, or it presents), and one in which it      *)
(* exits.                                                                  *)

FlagBuilds ==
    {<<12, "none", TRUE>>, <<12, "curses", TRUE>>, <<13, "console", TRUE>>}

FlagTypes == {GURU_WARN, GURU_CRITICAL}

NextFlag ==
    \/ OpenSyslog(TRUE, {})
    \/ CloseSyslog
    \/ \E b \in BOOLEAN : ConsoleReady(b)
    \/ Log("a", GURU_WARN)
    \/ \E t \in FlagTypes : Nonfatal("a", t)
    \/ Halt("x")
    \/ Tick(CASCADE_TIMEOUT)
    \/ Acknowledge
    \/ PresenterKey

SpecFlag == InitBuild(FlagBuilds) /\ [][NextFlag]_vars

(* C13: once cascade_failure is true it is true in every later state,      *)
(* whatever operation follows.                                             *)
C13_Step == cascade_failure => cascade_failure'

C13_FlagMonotone == [][C13_Step]_vars

(* The log was opened again after the cascade was declared, past the       *)
(* window, and the flag is still set.                                      *)
C13_Witness ==
    /\ cascade_failure
    /\ op.name = "open_syslog"
    /\ syslog_open
    /\ now > StartTime + CASCADE_TIMEOUT
    /\ pstate = "Normal"

---------------------------------------------------------------------------
(* The log sink opened (with and without success), closed, and given       *)
(* texts in both states: a plain text, a text with a conversion, and the   *)
(* text open_syslog itself writes.                                         *)

SinkBuilds == {<<12, "none", TRUE>>, <<13, "console", FALSE>>, <<13, "curses", TRUE>>}

SinkMsgs == {"a", "v=%d", OnlineMsg}

SinkTypes == {GURU_INFO, GURU_ERROR}

NextSink ==
    \/ \E ok \in BOOLEAN : OpenSyslog(ok, {})
    \/ CloseSyslog
    \/ \E m \in SinkMsgs, t \in SinkTypes : LogTracked(m, t)

SpecSink == InitBuild(SinkBuilds) /\ [][NextSink]_vars

(* What a log call made while the log is not open leaves alone: every      *)
(* variable of the program.                                                *)
C14_Frame ==
    (op'.name = "log" /\ ~syslog_open) =>
        UNCHANGED <<cascade_count, cascade_failure, cascade_timer, dead_already,
                    fully_active, last_log_message, message, syslog_open, logfile,
                    funcs, handlers, pstate, exit_status, shown>>

Appended(type, msg) == logfile' = Append(logfile, Line(type, Format(gen, msg)))

(* C14 as stated: a log call made while the log is not open changes        *)
(* nothing, and a text it was given is written when it is given to log()   *)
(* again with the log open.                                                *)
C14_AsStated_Step ==
    /\ C14_Frame
    /\ (op'.name = "log" /\ syslog_open /\ op'.msg \in unwritten) =>
          Appended(op'.type, op'.msg)

C14_AsStated == [][C14_AsStated_Step]_vars

(* C14, amended: a log call made while the log is not open changes         *)
(* nothing, the remembered last text included; a text it was given is      *)
(* written when it is given to log() again with the log open, unless it    *)
(* is the text of the last written line.                                   *)
C14_Step ==
    /\ C14_Frame
    /\ (/\ op'.name = "log"
        /\ syslog_open
        /\ op'.msg \in unwritten
        /\ logfile = <<>> \/ Format(gen, op'.msg) # LastText(logfile))
          => Appended(op'.type, op'.msg)

C14_ClosedLogNoEffect == [][C14_Step]_vars

(* A text was given to log() after the log had been open and was closed. *)
C14_Witness ==
    /\ op.name = "log"
    /\ op.msg = "a"
    /\ ~syslog_open
    /\ "a" \in unwritten
    /\ logfile # <<>>
    /\ last_log_message = Farewell2

---------------------------------------------------------------------------
(* The signal handler in every build: the four hooked signals delivered    *)
(* while the process runs or presents, and the handler entered for signal  *)
(* numbers it does not know.                                               *)

OtherSignals == {"SIGTERM", "SIGINT"}

NextSignal ==
    \/ OpenSyslog(TRUE, {})
    \/ \E b \in BOOLEAN : ConsoleReady(b)
    \/ \E sig \in Signals : SignalEnter(sig)
    \/ HandlerBody
    \/ \E sig \in OtherSignals : Intercept(sig)
    \/ Acknowledge
    \/ PresenterKey

SpecSignal == InitBuild(Builds) /\ [][NextSignal]_vars

(* The phrase the claim gives each signal. *)
C15_Phrase(sig) ==
    CASE sig = "SIGABRT" -> "Software requested abort."
      [] sig = "SIGFPE" -> "Floating-point exception."
      [] sig = "SIGILL" -> "Illegal instruction."
      [] sig = "SIGSEGV" -> "Segmentation fault."
      [] OTHER -> "Intercepted unknown signal."

(* C15: the handler gives abort, floating-point exception, illegal         *)
(* instruction and segmentation fault each its own phrase and every other  *)
(* signal "Intercepted unknown signal.", and in every case it ends by      *)
(* calling halt with that phrase: the banner and the phrase are passed to  *)
(* log() as critical lines, and a notice that is presented shows the       *)
(* phrase.                                                                 *)
C15_Step ==
    op'.name = "intercept_signal" =>
        /\ HaltStep
        /\ Len(submitted') >= 2
        /\ submitted'[1] = [type |-> GURU_CRITICAL, text |-> Banner]
        /\ submitted'[2] = [type |-> GURU_CRITICAL, text |-> C15_Phrase(op'.msg)]
        /\ shown' # shown => shown' = Append(shown, Cap(C15_Phrase(op'.msg)))
        /\ \A s1, s2 \in Signals : s1 # s2 => C15_Phrase(s1) # C15_Phrase(s2)
        /\ \A s1 \in Signals : C15_Phrase(s1) # C15_Phrase("SIGTERM")

C15_SignalPhrases == [][C15_Step]_vars

(* The handler was entered for a signal it does not know and the notice    *)
(* with the generic phrase is on screen.                                   *)
C15_Witness ==
    /\ op.name = "intercept_signal"
    /\ op.msg = "SIGTERM"
    /\ pstate = "Presenting"
    /\ shown = <<"Intercepted unknown signal.">>
    /\ halts = 1

---------------------------------------------------------------------------
(* open_syslog in every build, with signal() failing for none, one or two  *)
(* of the four signals.                                                    *)

OpenFailures == {{}, {"SIGABRT"}, {"SIGILL"}, {"SIGSEGV", "SIGFPE"}}

NextOpen ==
    \/ \E fail \in OpenFailures : OpenSyslog(TRUE, fail)
    \/ CloseSyslog
    \/ \E b \in BOOLEAN : ConsoleReady(b)
    \/ Tick(1)
    \/ Acknowledge
    \/ PresenterKey

SpecOpen == InitBuild(Builds) /\ [][NextOpen]_vars

(* C16: an open_syslog in which the hooking of a signal fails calls halt    *)
(* and does not return to its caller, and it does not start the window of  *)
(* the detector; an open_syslog that hooks all four signals starts it.     *)
C16_Step ==
    op'.name = "open_syslog" =>
        IF op'.fail # {}
        THEN /\ halts' > halts
             /\ pstate' # "Normal"
             /\ cascade_timer' = cascade_timer
        ELSE /\ \A sig \in Signals : handlers'[sig] = "hook"
             /\ cascade_timer' = now
             /\ halts' = halts

C16_HookFailureIsFatal == [][C16_Step]_vars

---------------------------------------------------------------------------

(* C17: once a fatal report was handed to the presenter (a notice was      *)
(* shown, or is on screen), dead_already is true, and it stays true.       *)
C17_ActiveAfterHandOff ==
    (pstate = "Presenting" \/ shown # <<>>) => dead_already

---------------------------------------------------------------------------
(* Reports with a severity that carries no weight (information, stack      *)
(* trace, a number that is no severity at all) next to warnings, with the  *)
(* clock stepping by the length of the window.                             *)

SeverityBuilds ==
    {<<12, "none", TRUE>>, <<12, "curses", TRUE>>,
     <<13, "console", FALSE>>, <<13, "curses", TRUE>>}

OtherSeverity == 7

SeverityTypes == {GURU_INFO, GURU_STACK, OtherSeverity, GURU_WARN}

NextSeverity ==
    \/ \E ok \in BOOLEAN : OpenSyslog(ok, {})
    \/ ConsoleReady(TRUE)
    \/ Tick(CASCADE_TIMEOUT)
    \/ \E t \in SeverityTypes : Nonfatal("a", t)
    \/ Acknowledge
    \/ PresenterKey

SpecSeverity == InitBuild(SeverityBuilds) /\ [][NextSeverity]_vars

(* The lines a step adds to the log. *)
NewLines == SubSeq(logfile', Len(logfile) + 1, Len(logfile'))

(* A report with a severity outside the three weighted ones is made with   *)
(* the log open and no cascade declared.                                   *)
BadSeverityStep ==
    /\ op'.name = "nonfatal"
    /\ op'.type \notin Weighted
    /\ syslog_open
    /\ ~cascade_failure

(* C18 as stated: such a report writes the warning that the severity was   *)
(* incorrect and no line of any other severity.                            *)
C18_AsStated_Step ==
    BadSeverityStep =>
        /\ \E i \in 1..Len(NewLines) : NewLines[i] = Line(GURU_WARN, BadSeverityMsg)
        /\ \A i \in 1..Len(NewLines) : NewLines[i].tag = TagOf(GURU_WARN)

C18_Step ==
    BadSeverityStep =>
        /\ submitted'[1] = [type |-> GURU_WARN, text |-> BadSeverityMsg]
        /\ NewLines # <<>>
        /\ NewLines[1] = Line(GURU_WARN, BadSeverityMsg)
        /\ pstate' = "Normal" =>
              /\ submitted'[Len(submitted')] = [type |-> op'.type, text |-> op'.msg]
              /\ NewLines[Len(NewLines)] = [tag |-> "", text |-> Format(gen, op'.msg)]

C19_Step ==
    (op'.name = "nonfatal" /\ op'.type \notin Weighted) =>
        /\ cascade_count' = cascade_count
        /\ cascade_timer' = cascade_timer
        /\ cascade_failure' = cascade_failure
        /\ halts' = halts

C19_ZeroWeightBypass == [][C19_Step]_vars

---------------------------------------------------------------------------

(* The detector under weighted reports at known times: the clock steps by  *)
(* one second or by the whole timeout.                                     *)

WindowBuilds == {<<12, "none", TRUE>>, <<13, "console", FALSE>>, <<13, "libtcod", TRUE>>}

NextWindow ==
    \/ OpenSyslog(TRUE, {})
    \/ \E d \in TickSteps : Tick(d)
    \/ \E t \in Weighted : NonfatalTimed("a", t)
    \/ Acknowledge

SpecWindow == InitBuild(WindowBuilds) /\ [][NextWindow]_vars

(* The pressure goes down. *)
PressureDrops == cascade_count' < cascade_count

(* C20 as stated: the pressure goes down only to 0, and only by a report   *)
(* before which no weighted report was made for 30 s: a stream of          *)
(* weighted reports less than 30 s apart is never reset.                   *)
C20_AsStated_Step ==
    PressureDrops =>
        /\ cascade_count' = 0
        /\ op'.name = "nonfatal"
        /\ \/ weighted_at = <<>>
           \/ now - weighted_at[Len(weighted_at)] >= CASCADE_TIMEOUT

C20_Step ==
    PressureDrops =>
        /\ cascade_count' = 0
        /\ op'.name = "nonfatal"
        /\ ~cascade_failure
        /\ now - cascade_timer > CASCADE_TIMEOUT
        /\ cascade_timer' = now

---------------------------------------------------------------------------
(* The detector under bursts of weighted reports around the end of a       *)
(* window.                                                                 *)

SpanBuilds == {<<13, "console", FALSE>>}

SpanTypes == {GURU_ERROR, GURU_CRITICAL}

NextSpan ==
    \/ OpenSyslog(TRUE, {})
    \/ \E d \in TickSteps : Tick(d)
    \/ \E t \in SpanTypes : NonfatalSpan("a", t)

SpecSpan == InitBuild(SpanBuilds) /\ [][NextSpan]_vars

RECURSIVE SumWeights(_)
SumWeights(es) ==
    IF es = <<>> THEN 0 ELSE es[1].weight + SumWeights(Tail(es))

(* The remembered reports made after the last one that found the window    *)
(* expired: those that fell into the current window.                       *)
RECURSIVE SinceExpiry(_)
SinceExpiry(es) ==
    IF es = <<>> THEN <<>>
    ELSE IF es[Len(es)].expired THEN <<>>
    ELSE Append(SinceExpiry(SubSeq(es, 1, Len(es) - 1)), es[Len(es)])

---------------------------------------------------------------------------
(* The text a fatal report passes to halt(): the cascade notice for a      *)
(* report of nonfatal(), the phrase of the signal for the handler, the     *)
(* text of the caller otherwise.                                           *)
FatalText(o) ==
    CASE o.name = "nonfatal" -> CascadeMsg
      [] o.name = "intercept_signal" -> PhraseOf(o.msg)
      [] OTHER -> Format(gen, o.msg)

Entry(type, text) == [type |-> type, text |-> text]

(* C22: every fatal report (made while the presenter is not ready, or      *)
(* while an earlier report is presenting, included) passes the banner and  *)
(* then its own text to log() at the critical severity and then drains     *)
(* the stack, whatever the readiness check decides afterwards; when the    *)
(* report is the cascade notice, the line of the report that tripped the   *)
(* detector was passed to log() just before the banner.                    *)
C22_Step ==
    halts' > halts =>
        \E i \in 1..(Len(submitted') - 1) :
            /\ \A j \in 1..(i - 1) : submitted'[j].text # Banner
            /\ submitted'[i] = Entry(GURU_CRITICAL, Banner)
            /\ submitted'[i + 1] = Entry(GURU_CRITICAL, FatalText(op'))
            /\ IF stack_on
               THEN /\ Len(submitted') >= i + 3
                    /\ submitted'[i + 2] = Entry(GURU_STACK, TraceHeader)
                    /\ submitted'[i + 3].type = GURU_STACK
                    /\ Len(drained') = 1
               ELSE \A j \in 1..Len(submitted') : submitted'[j].type # GURU_STACK
            /\ op'.name = "nonfatal" =>
                  /\ i > 1
                  /\ submitted'[i - 1] = Entry(op'.type, Format(gen, op'.msg))

C22_BannerFirst == [][C22_Step]_vars

(* A Curses build that was not ready has halted and exited, and the        *)
(* banner, the text and the trace went to an open log before.              *)
C22_Witness ==
    /\ backend = "curses"
    /\ ~fully_active
    /\ syslog_open
    /\ op.name = "halt"
    /\ pstate = "Terminated"
    /\ shown = <<>>
    /\ Len(submitted) = 4
    /\ submitted[1] = Entry(GURU_CRITICAL, Banner)
    /\ submitted[2] = Entry(GURU_CRITICAL, "x")
    /\ submitted[3] = Entry(GURU_STACK, TraceHeader)
    /\ Written(logfile, SubSeq(submitted, 3, 4))

---------------------------------------------------------------------------
(* C23: with fault signals delivered at any point, at most one invocation  *)
(* of intercept_signal is in progress at any time: once one has begun, no  *)
(* other begins before the process terminates.                             *)
C23_OneHandler == Len(handling) <= 1

---------------------------------------------------------------------------
(* The line of the report of this step was appended to the log. *)
LineWritten ==
    /\ Len(logfile') > Len(logfile)
    /\ logfile'[Len(logfile) + 1] =
          [tag |-> TagOf(op'.type), text |-> Format(gen, op'.msg)]

(* C24: what a weighted report does to the detector depends on the         *)
(* pressure, the window start, the clock and the weight alone, and not on  *)
(* whether its line was written: a report whose line is dropped because    *)
(* the log is not open, or because the text is that of the last line,      *)
(* leaves the log without its line and adds its weight (or resets the      *)
(* window) as a written one does.                                          *)
C24_Step ==
    (op'.name = "nonfatal" /\ op'.type \in Weighted /\ ~cascade_failure) =>
        /\ cascade_count' = IF InWindow THEN cascade_count + WeightOf(op'.type) ELSE 0
        /\ cascade_timer' = IF InWindow THEN cascade_timer ELSE now
        /\ cascade_failure' <=>
              (InWindow /\ cascade_count + WeightOf(op'.type) > CASCADE_THRESHOLD)
        /\ LineWritten <=>
              (syslog_open /\ Format(gen, op'.msg) # last_log_message)
        /\ ~syslog_open => logfile' = logfile

C24_PressureWithoutLines == [][C24_Step]_vars

(* 21 warnings with one text, made in one window with the log open, have   *)
(* declared the cascade, and the log holds one line for them.              *)
C24_Witness ==
    /\ syslog_open
    /\ cascade_failure
    /\ streak = [NoStreak EXCEPT ![GURU_WARN] = 21]
    /\ Cardinality({i \in 1..Len(logfile) : logfile[i].text = "a"}) = 1

---------------------------------------------------------------------------
(* C25: in every reachable state the cascade is declared exactly when the  *)
(* pressure is above 20; the pressure is at most 20 while it is not        *)
(* declared, and never above 24, the threshold plus the largest weight.    *)
C25_PressureBounds ==
    /\ cascade_failure <=> cascade_count > CASCADE_THRESHOLD
    /\ ~cascade_failure => cascade_count <= CASCADE_THRESHOLD
    /\ cascade_count <= CASCADE_THRESHOLD + CASCADE_WEIGHT_CRITICAL
    /\ cascade_count >= 0

(* A critical report found the pressure at 20 and declared the cascade. *)
C25_Witness ==
    /\ op.name = "nonfatal"
    /\ op.type = GURU_CRITICAL
    /\ cascade_failure
    /\ cascade_count = CASCADE_THRESHOLD + CASCADE_WEIGHT_CRITICAL

---------------------------------------------------------------------------
(* Guards of the application around calls of the library that create and   *)
(* destroy a guard of their own, with and without the stack trace.         *)

GuardBuilds ==
    {<<12, "none", TRUE>>, <<13, "curses", TRUE>>, <<13, "console", FALSE>>}

GuardTypes == {GURU_INFO, GURU_CRITICAL}

NextGuard ==
    \/ OpenSyslog(TRUE, {})
    \/ CloseSyslog
    \/ \E f \in AppFuncs : GuardPush(f)
    \/ GuardPop
    \/ \E c \in BOOLEAN : Affirm(c, "x")
    \/ \E t \in GuardTypes : Nonfatal("a", t)

SpecGuard == InitBuild(GuardBuilds) /\ [][NextGuard]_vars

(* The guards that are alive: those of the application, and above them     *)
(* one for every invocation of the signal handler in progress.  A build    *)
(* without the stack trace has no guards: stack_trace() is not compiled.   *)
LiveGuards ==
    IF stack_on
    THEN live \o [i \in 1..Len(handling) |-> "intercept_signal"]
    ELSE <<>>

(* The calls of the library that return with their own guard destroyed. *)
OwnGuardOps == {"affirm_true", "close_syslog", "nonfatal"}

(* C26: while no fatal report has begun, StackTrace::funcs holds the       *)
(* identifiers of the live guards in the order of entry, innermost last,   *)
(* so its depth is the number of live guards, and a call that creates and  *)
(* destroys a guard of its own (affirm with a true condition,              *)
(* close_syslog, nonfatal) leaves it as it found it.                       *)
C26_Step ==
    halts' = 0 =>
        /\ funcs' = LiveGuards'
        /\ Len(funcs') = Len(LiveGuards')
        /\ op'.name \in OwnGuardOps => funcs' = funcs

C26_ShadowIsLiveGuards == [][C26_Step]_vars

(* nonfatal() has logged a report and returned under two guards of the     *)
(* application, and no fatal report was made.                              *)
C26_Witness ==
    /\ stack_on
    /\ halts = 0
    /\ op.name = "nonfatal"
    /\ submitted # <<>>
    /\ Len(live) = 2
    /\ funcs = live

====
